---- MODULE Spec2Model ----
(***************************************************************************)
(* Shamir secret sharing over GF(257) with two-byte share elements:        *)
(* Split / Combine (shamir.go, prime-257 revision) and the parameter       *)
(* validators of utils.go.                                                 *)
(*                                                                         *)
(* Go slices are sequences (1-based here, 0-based in the source); a nil    *)
(* slice is the empty sequence, with a separate flag where the source      *)
(* tests for nil.  An error is a record: msg is the Go message with its    *)
(* format verbs left in place, at and val are the formatted arguments.     *)
(***************************************************************************)
EXTENDS Integers, Sequences, FiniteSets, TLC

(***************************************************************************)
(* Program constants.                                                      *)
(***************************************************************************)
FieldPrime == 257
MaxShares == 255
MinThreshold == 2

(***************************************************************************)
(* Bounds of the model.                                                    *)
(***************************************************************************)
MaxSecretLen == 2
MaxTotal == 3
MaxPick == 3
MaxValueLen == 2
MaxHexShares == 2
MaxEncodedLen == 6
MaxCoeffs == 3

\* secret bytes and coefficient draws of the sampled specification
SecretBytes == {0, 255}
CoeffVals == {1, 256}
\* thresholds and share counts offered to Split and Combine
ThresholdVals == {0, 1, 2, 3, 256}
CombineThresholds == {1, 2, 3, 256}
BoundaryTotals == {255, 256}

Byte == 0..255
FieldElems == 0..(FieldPrime - 1)

(***************************************************************************)
(* Errors.                                                                 *)
(***************************************************************************)
Err(m, a, v) == [msg |-> m, at |-> a, val |-> v]
Nil == Err("", -1, -1)
IsErr(e) == e # Nil

\* outcome of one read of the random source: a value, or a failure
RandFail == -1

Min(a, b) == IF a < b THEN a ELSE b

(***************************************************************************)
(* utils.go                                                                *)
(***************************************************************************)
\* validateSplitParams refusing secret bytes above 250, as a field of 251
\* elements would need
validateSplitParamsByteLimit(secretNil, secret, totalShares, threshold) ==
    IF secretNil THEN Err("secret cannot be nil", -1, -1)
    ELSE IF Len(secret) = 0 THEN Err("secret must not be empty", -1, -1)
    ELSE IF threshold < MinThreshold
        THEN Err("threshold must be at least %d", MinThreshold, -1)
    ELSE IF threshold > MaxShares
        THEN Err("threshold must be <= %d", MaxShares, -1)
    ELSE IF totalShares < threshold
        THEN Err("totalShares must be >= threshold", -1, -1)
    ELSE IF totalShares > MaxShares
        THEN Err("totalShares must be <= %d", MaxShares, -1)
    ELSE IF \E i \in 1..Len(secret) : secret[i] > 250
        THEN Err("secret byte exceeds the finite field limit", -1, -1)
    ELSE Nil

\* validateSplitParams with the share-count limit off by one
validateSplitParamsOffByOne(secretNil, secret, totalShares, threshold) ==
    IF secretNil THEN Err("secret cannot be nil", -1, -1)
    ELSE IF Len(secret) = 0 THEN Err("secret must not be empty", -1, -1)
    ELSE IF threshold < MinThreshold
        THEN Err("threshold must be at least %d", MinThreshold, -1)
    ELSE IF threshold > MaxShares
        THEN Err("threshold must be <= %d", MaxShares, -1)
    ELSE IF totalShares < threshold
        THEN Err("totalShares must be >= threshold", -1, -1)
    ELSE IF totalShares >= MaxShares
        THEN Err("totalShares must be <= %d", MaxShares, -1)
    ELSE Nil

validateSplitParams(secretNil, secret, totalShares, threshold) ==
    IF secretNil THEN Err("secret cannot be nil", -1, -1)
    ELSE IF Len(secret) = 0 THEN Err("secret must not be empty", -1, -1)
    ELSE IF threshold < MinThreshold
        THEN Err("threshold must be at least %d", MinThreshold, -1)
    ELSE IF threshold > MaxShares
        THEN Err("threshold must be <= %d", MaxShares, -1)
    ELSE IF totalShares < threshold
        THEN Err("totalShares must be >= threshold", -1, -1)
    ELSE IF totalShares > MaxShares
        THEN Err("totalShares must be <= %d", MaxShares, -1)
    ELSE Nil

\* the first share of usedShares whose value length differs, 0 if none
FirstInconsistent(usedShares, expectedLen) ==
    LET bad == {i \in 1..Len(usedShares) : Len(usedShares[i].Value) # expectedLen}
    IN IF bad = {} THEN 0 ELSE CHOOSE i \in bad : \A j \in bad : i <= j

\* validateCombineParams checking the length of every share given, used or not
validateCombineParamsAllShares(sharesNil, shares, threshold) ==
    IF sharesNil THEN Err("shares cannot be nil", -1, -1)
    ELSE IF Len(shares) = 0 THEN Err("no shares provided", -1, -1)
    ELSE IF threshold < MinThreshold
        THEN Err("threshold must be at least %d", MinThreshold, -1)
    ELSE IF threshold > MaxShares
        THEN Err("threshold must be <= %d", MaxShares, -1)
    ELSE IF Len(shares) < threshold
        THEN Err("insufficient shares: need at least threshold shares", -1, -1)
    ELSE
        LET expectedLen == Len(shares[1].Value)
            bad == FirstInconsistent(shares, expectedLen)
        IN IF expectedLen = 0 THEN Err("share value cannot be empty", -1, -1)
           ELSE IF expectedLen % 2 # 0
               THEN Err("share value length must be even", -1, -1)
           ELSE IF bad # 0
               THEN Err("share %d has inconsistent length", bad - 1, -1)
           ELSE Nil

\* validateCombineParams without the lower limit on the threshold
validateCombineParamsNoMin(sharesNil, shares, threshold) ==
    IF sharesNil THEN Err("shares cannot be nil", -1, -1)
    ELSE IF Len(shares) = 0 THEN Err("no shares provided", -1, -1)
    ELSE IF threshold > MaxShares
        THEN Err("threshold must be <= %d", MaxShares, -1)
    ELSE IF Len(shares) < threshold
        THEN Err("insufficient shares: need at least threshold shares", -1, -1)
    ELSE
        LET usedShares == IF Len(shares) > threshold
                          THEN SubSeq(shares, 1, threshold) ELSE shares
            expectedLen == Len(usedShares[1].Value)
            bad == FirstInconsistent(usedShares, expectedLen)
        IN IF expectedLen = 0 THEN Err("share value cannot be empty", -1, -1)
           ELSE IF expectedLen % 2 # 0
               THEN Err("share value length must be even", -1, -1)
           ELSE IF bad # 0
               THEN Err("share %d has inconsistent length", bad - 1, -1)
           ELSE Nil

validateCombineParams(sharesNil, shares, threshold) ==
    IF sharesNil THEN Err("shares cannot be nil", -1, -1)
    ELSE IF Len(shares) = 0 THEN Err("no shares provided", -1, -1)
    ELSE IF threshold < MinThreshold
        THEN Err("threshold must be at least %d", MinThreshold, -1)
    ELSE IF threshold > MaxShares
        THEN Err("threshold must be <= %d", MaxShares, -1)
    ELSE IF Len(shares) < threshold
        THEN Err("insufficient shares: need at least threshold shares", -1, -1)
    ELSE
        LET usedShares == IF Len(shares) > threshold
                          THEN SubSeq(shares, 1, threshold) ELSE shares
            expectedLen == Len(usedShares[1].Value)
            bad == FirstInconsistent(usedShares, expectedLen)
        IN IF expectedLen = 0 THEN Err("share value cannot be empty", -1, -1)
           ELSE IF expectedLen % 2 # 0
               THEN Err("share value length must be even", -1, -1)
           ELSE IF bad # 0
               THEN Err("share %d has inconsistent length", bad - 1, -1)
           ELSE Nil

\* IndexScan without the test for a zero index
RECURSIVE IndexScanNoZero(_, _, _)
IndexScanNoZero(shares, i, seen) ==
    IF i > Len(shares) THEN Nil
    ELSE IF shares[i].Index \in seen THEN Err("duplicate share index found", -1, -1)
    ELSE IndexScanNoZero(shares, i + 1, seen \cup {shares[i].Index})

\* IndexScan without the test for an index seen before
RECURSIVE IndexScanNoDup(_, _, _)
IndexScanNoDup(shares, i, seen) ==
    IF i > Len(shares) THEN Nil
    ELSE IF shares[i].Index = 0 THEN Err("share index must be non-zero", -1, -1)
    ELSE IndexScanNoDup(shares, i + 1, seen \cup {shares[i].Index})

\* the loop of validateShareIndices from share i on; seen is the map's key set
RECURSIVE IndexScan(_, _, _)
IndexScan(shares, i, seen) ==
    IF i > Len(shares) THEN Nil
    ELSE IF shares[i].Index = 0 THEN Err("share index must be non-zero", -1, -1)
    ELSE IF shares[i].Index \in seen THEN Err("duplicate share index found", -1, -1)
    ELSE IndexScan(shares, i + 1, seen \cup {shares[i].Index})

validateShareIndices(shares) == IndexScan(shares, 1, {})

(***************************************************************************)
(* shamir.go: the field, the polynomial engine and Split.                  *)
(***************************************************************************)
byte(v) == v % 256
uint8(v) == v % 256

\* randInt that never gives max - 1
randIntShort(max) == 0..(max - 2)

\* crypto/rand.Int(rand.Reader, max): the values one successful read can give
randInt(max) == 0..(max - 1)

\* DrawCoeffs going on with the coefficient 0 when a read fails
RECURSIVE DrawCoeffsSubstitute(_, _, _, _)
DrawCoeffsSubstitute(coeffs, i, threshold, tape) ==
    IF i >= threshold THEN [coeffs |-> coeffs, err |-> Nil, used |-> i - 1]
    ELSE IF tape[i] = RandFail
        THEN DrawCoeffsSubstitute(Append(coeffs, 0), i + 1, threshold, tape)
    ELSE DrawCoeffsSubstitute(Append(coeffs, tape[i]), i + 1, threshold, tape)

\* the loop of generatePolynomialCoeffs at coefficient i; tape holds the
\* outcomes of the reads of the random source that are still to come
RECURSIVE DrawCoeffs(_, _, _, _)
DrawCoeffs(coeffs, i, threshold, tape) ==
    IF i >= threshold THEN [coeffs |-> coeffs, err |-> Nil, used |-> i - 1]
    ELSE IF tape[i] = RandFail
        THEN [coeffs |-> <<>>,
              err |-> Err("random coefficient generation failed: %w", -1, -1),
              used |-> i]
    ELSE DrawCoeffs(Append(coeffs, tape[i]), i + 1, threshold, tape)

generatePolynomialCoeffs(secretByte, threshold, tape) ==
    DrawCoeffs(<<secretByte>>, 1, threshold, tape)

\* Horner stopping before the constant term
RECURSIVE HornerOffByOne(_, _, _, _, _)
HornerOffByOne(coeffs, i, x, prime, result) ==
    IF i < 2 THEN result
    ELSE HornerOffByOne(coeffs, i - 1, x, prime, (result * x + coeffs[i]) % prime)

\* the loop of evaluatePolynomial at (1-based) coefficient i
RECURSIVE Horner(_, _, _, _, _)
Horner(coeffs, i, x, prime, result) ==
    IF i < 1 THEN result
    ELSE Horner(coeffs, i - 1, x, prime, (result * x + coeffs[i]) % prime)

evaluatePolynomial(coeffs, x, prime) ==
    IF Len(coeffs) = 0 THEN 0
    ELSE Horner(coeffs, Len(coeffs) - 1, x, prime, coeffs[Len(coeffs)])

\* EncodeElement keeping the low byte only
EncodeElementLowByte(y) == <<byte(y), 0>>

\* EncodeElement writing the high byte first
EncodeElementBigEndian(y) == <<byte(y \div 256), byte(y % 256)>>

\* the two bytes Split appends for the evaluation y
EncodeElement(y) == <<byte(y % 256), byte(y \div 256)>>

\* SplitBytes drawing the coefficients once and using them for every byte
RECURSIVE SplitBytesReuse(_, _, _, _, _, _, _)
SplitBytesReuse(secret, pos, shares, totalShares, threshold, tape, used) ==
    IF pos > Len(secret) THEN [shares |-> shares, err |-> Nil, used |-> used]
    ELSE
        LET g == generatePolynomialCoeffs(secret[pos], threshold, tape)
        IN IF IsErr(g.err)
           THEN [shares |-> <<>>, err |-> g.err, used |-> g.used]
           ELSE SplitBytesReuse(secret, pos + 1,
                    [i \in 1..totalShares |->
                        [shares[i] EXCEPT !.Value =
                            @ \o EncodeElement(evaluatePolynomial(g.coeffs, i, FieldPrime))]],
                    totalShares, threshold, tape, g.used)

\* the loop of Split over the secret from byte pos on; used counts the reads
\* of the random source so far
RECURSIVE SplitBytes(_, _, _, _, _, _, _)
SplitBytes(secret, pos, shares, totalShares, threshold, tape, used) ==
    IF pos > Len(secret) THEN [shares |-> shares, err |-> Nil, used |-> used]
    ELSE
        LET g == generatePolynomialCoeffs(secret[pos], threshold,
                                          SubSeq(tape, used + 1, Len(tape)))
        IN IF IsErr(g.err)
           THEN [shares |-> <<>>, err |-> g.err, used |-> used + g.used]
           ELSE SplitBytes(secret, pos + 1,
                    [i \in 1..totalShares |->
                        [shares[i] EXCEPT !.Value =
                            @ \o EncodeElement(evaluatePolynomial(g.coeffs, i, FieldPrime))]],
                    totalShares, threshold, tape, used + g.used)

\* NewShares with 0-based indices
NewSharesZeroBased(totalShares) ==
    [i \in 1..totalShares |-> [Index |-> uint8(i - 1), Value |-> <<>>]]

\* the shares before the first byte is processed: indices 1..totalShares
NewShares(totalShares) ==
    [i \in 1..totalShares |-> [Index |-> uint8(i), Value |-> <<>>]]

\* Split testing the share count only after the coefficients of the first
\* byte are drawn
SplitLateValidation(secretNil, secret, totalShares, threshold, tape) ==
    LET verr == validateSplitParams(secretNil, secret, totalShares, threshold)
    IN IF IsErr(verr)
       THEN [shares |-> <<>>, err |-> verr,
             used |-> IF secretNil \/ Len(secret) = 0
                         \/ threshold < MinThreshold \/ threshold > MaxShares
                      THEN 0
                      ELSE generatePolynomialCoeffs(secret[1], threshold, tape).used]
       ELSE SplitBytes(secret, 1, NewShares(totalShares),
                       totalShares, threshold, tape, 0)

Split(secretNil, secret, totalShares, threshold, tape) ==
    LET verr == validateSplitParams(secretNil, secret, totalShares, threshold)
    IN IF IsErr(verr) THEN [shares |-> <<>>, err |-> verr, used |-> 0]
       ELSE SplitBytes(secret, 1, NewShares(totalShares),
                       totalShares, threshold, tape, 0)

(***************************************************************************)
(* shamir.go: Lagrange interpolation and Combine.                          *)
(***************************************************************************)
NoInverse == -1

\* the extended Euclidean algorithm of math/big GCD: d = gcd(a, b) and x, y
\* with a*x + b*y = d
RECURSIVE GCD(_, _)
GCD(a, b) ==
    IF b = 0 THEN [d |-> a, x |-> 1, y |-> 0]
    ELSE LET r == GCD(b, a % b)
         IN [d |-> r.d, x |-> r.y, y |-> r.x - (a \div b) * r.y]

\* ModInverse giving 0 where there is no inverse
ModInverseSilentZero(g, n) ==
    LET r == GCD(g % n, n)
    IN IF r.d # 1 THEN 0 ELSE r.x % n

\* math/big ModInverse: the inverse of g modulo n, nil when g and n are not
\* relatively prime
ModInverse(g, n) ==
    LET r == GCD(g % n, n)
    IN IF r.d # 1 THEN NoInverse ELSE r.x % n

\* ModInverse(den, prime) for every den the loop can reach, computed once
FieldInverse == [a \in FieldElems |-> ModInverse(a, FieldPrime)]

\* NumDen taking a share's position in the slice for its index in the numerator
RECURSIVE NumDenByPosition(_, _, _, _, _, _)
NumDenByPosition(shares, i, j, prime, num, den) ==
    IF j > Len(shares) THEN [num |-> num, den |-> den]
    ELSE IF i = j THEN NumDenByPosition(shares, i, j + 1, prime, num, den)
    ELSE NumDenByPosition(shares, i, j + 1, prime,
                (num * (-j)) % prime,
                (den * (shares[i].Index - shares[j].Index)) % prime)

\* NumDen multiplying the numerator by x_j where the source has -x_j
RECURSIVE NumDenNoNeg(_, _, _, _, _, _)
NumDenNoNeg(shares, i, j, prime, num, den) ==
    IF j > Len(shares) THEN [num |-> num, den |-> den]
    ELSE IF i = j THEN NumDenNoNeg(shares, i, j + 1, prime, num, den)
    ELSE NumDenNoNeg(shares, i, j + 1, prime,
                (num * shares[j].Index) % prime,
                (den * (shares[i].Index - shares[j].Index)) % prime)

\* NumDen leaving out the shares before share i
RECURSIVE NumDenOnlyLater(_, _, _, _, _, _)
NumDenOnlyLater(shares, i, j, prime, num, den) ==
    IF j > Len(shares) THEN [num |-> num, den |-> den]
    ELSE IF j <= i THEN NumDenOnlyLater(shares, i, j + 1, prime, num, den)
    ELSE NumDenOnlyLater(shares, i, j + 1, prime,
                (num * (-shares[j].Index)) % prime,
                (den * (shares[i].Index - shares[j].Index)) % prime)

\* the inner loop of lagrangeInterpolate for share i, from share j on
RECURSIVE NumDen(_, _, _, _, _, _)
NumDen(shares, i, j, prime, num, den) ==
    IF j > Len(shares) THEN [num |-> num, den |-> den]
    ELSE IF i = j THEN NumDen(shares, i, j + 1, prime, num, den)
    ELSE NumDen(shares, i, j + 1, prime,
                (num * (-shares[j].Index)) % prime,
                (den * (shares[i].Index - shares[j].Index)) % prime)

\* LagrangeTerms with the range test off by one (the modulus itself passes)
RECURSIVE LagrangeTermsOffByOne(_, _, _, _, _)
LagrangeTermsOffByOne(shares, bytePos, prime, i, result) ==
    IF i > Len(shares) THEN [val |-> result, err |-> Nil]
    ELSE IF bytePos * 2 + 1 >= Len(shares[i].Value)
        THEN [val |-> 0, err |-> Err("share %d: byte position out of range", i - 1, -1)]
    ELSE
        LET yiVal == shares[i].Value[bytePos * 2 + 1]
                     + shares[i].Value[bytePos * 2 + 2] * 256
            nd == NumDen(shares, i, 1, prime, 1, 1)
            invDen == FieldInverse[nd.den]
            li == (nd.num * invDen) % prime
            term == (yiVal * li) % prime
        IN IF yiVal > FieldPrime
           THEN [val |-> 0,
                 err |-> Err("share %d: decoded value %d out of field range [0, %d]",
                             i - 1, yiVal)]
           ELSE IF invDen = NoInverse
           THEN [val |-> 0, err |-> Err("modular inverse does not exist", -1, -1)]
           ELSE LagrangeTermsOffByOne(shares, bytePos, prime, i + 1,
                                      (result + term) % prime)

\* the outer loop of lagrangeInterpolate from share i on
RECURSIVE LagrangeTerms(_, _, _, _, _)
LagrangeTerms(shares, bytePos, prime, i, result) ==
    IF i > Len(shares) THEN [val |-> result, err |-> Nil]
    ELSE IF bytePos * 2 + 1 >= Len(shares[i].Value)
        THEN [val |-> 0, err |-> Err("share %d: byte position out of range", i - 1, -1)]
    ELSE
        LET yiVal == shares[i].Value[bytePos * 2 + 1]
                     + shares[i].Value[bytePos * 2 + 2] * 256
            nd == NumDen(shares, i, 1, prime, 1, 1)
            invDen == FieldInverse[nd.den]
            li == (nd.num * invDen) % prime
            term == (yiVal * li) % prime
        IN IF yiVal >= FieldPrime
           THEN [val |-> 0,
                 err |-> Err("share %d: decoded value %d out of field range [0, %d]",
                             i - 1, yiVal)]
           ELSE IF invDen = NoInverse
           THEN [val |-> 0, err |-> Err("modular inverse does not exist", -1, -1)]
           ELSE LagrangeTerms(shares, bytePos, prime, i + 1, (result + term) % prime)

\* lagrangeInterpolate reading the first element of every share whatever
\* the byte position
lagrangeInterpolateFirstPosition(shares, bytePos, prime) ==
    IF Len(shares) = 0 THEN [val |-> 0, err |-> Err("no shares for interpolation", -1, -1)]
    ELSE IF bytePos < 0 THEN [val |-> 0, err |-> Err("invalid byte position", -1, -1)]
    ELSE LagrangeTerms(shares, 0, prime, 1, 0)

lagrangeInterpolate(shares, bytePos, prime) ==
    IF Len(shares) = 0 THEN [val |-> 0, err |-> Err("no shares for interpolation", -1, -1)]
    ELSE IF bytePos < 0 THEN [val |-> 0, err |-> Err("invalid byte position", -1, -1)]
    ELSE LagrangeTerms(shares, bytePos, prime, 1, 0)

\* CombineBytes returning the bytes reconstructed so far with the error
RECURSIVE CombineBytesPartial(_, _, _, _)
CombineBytesPartial(usedShares, bytePos, secretLen, out) ==
    IF bytePos >= secretLen THEN [secret |-> out, err |-> Nil]
    ELSE
        LET r == lagrangeInterpolate(usedShares, bytePos, FieldPrime)
        IN IF IsErr(r.err) THEN [secret |-> out, err |-> r.err]
           ELSE CombineBytesPartial(usedShares, bytePos + 1, secretLen,
                                    Append(out, byte(r.val % 256)))

\* the loop of Combine over the byte positions (0-based, as in the source)
RECURSIVE CombineBytes(_, _, _, _)
CombineBytes(usedShares, bytePos, secretLen, out) ==
    IF bytePos >= secretLen THEN [secret |-> out, err |-> Nil]
    ELSE
        LET r == lagrangeInterpolate(usedShares, bytePos, FieldPrime)
        IN IF IsErr(r.err) THEN [secret |-> <<>>, err |-> r.err]
           ELSE CombineBytes(usedShares, bytePos + 1, secretLen,
                             Append(out, byte(r.val % 256)))

\* Combine using MinThreshold shares whatever the threshold
CombineMinShares(sharesNil, shares, threshold) ==
    LET verr == validateCombineParams(sharesNil, shares, threshold)
    IN IF IsErr(verr) THEN [secret |-> <<>>, err |-> verr]
       ELSE
        LET usedShares == SubSeq(shares, 1, MinThreshold)
            ierr == validateShareIndices(usedShares)
            valueLen == Len(shares[1].Value)
            secretLen == valueLen \div 2
        IN IF IsErr(ierr) THEN [secret |-> <<>>, err |-> ierr]
           ELSE CombineBytes(usedShares, 0, secretLen, <<>>)

Combine(sharesNil, shares, threshold) ==
    LET verr == validateCombineParams(sharesNil, shares, threshold)
    IN IF IsErr(verr) THEN [secret |-> <<>>, err |-> verr]
       ELSE
        LET usedShares == SubSeq(shares, 1, threshold)
            ierr == validateShareIndices(usedShares)
            valueLen == Len(shares[1].Value)
            secretLen == valueLen \div 2
        IN IF IsErr(ierr) THEN [secret |-> <<>>, err |-> ierr]
           ELSE CombineBytes(usedShares, 0, secretLen, <<>>)

\* lines 396-399 of lagrangeInterpolate: the inverse of a denominator, or
\* the error
invertDenominator(den, prime) ==
    LET invDen == ModInverse(den, prime)
    IN IF invDen = NoInverse
       THEN [val |-> 0, err |-> Err("modular inverse does not exist", -1, -1)]
       ELSE [val |-> invDen, err |-> Nil]

(***************************************************************************)
(* shamir.go, GF(2^8) revision: the field of 256 elements with the log and *)
(* exp tables of the generator 3 and the reduction polynomial 0x11B.       *)
(***************************************************************************)
ReductionPoly == 283

\* a ^ b on non-negative integers
RECURSIVE Xor(_, _)
Xor(a, b) ==
    IF a = 0 /\ b = 0 THEN 0
    ELSE (((a % 2) + (b % 2)) % 2) + 2 * Xor(a \div 2, b \div 2)

\* the body of the first loop of init: x times 3 in GF(2^8)
TimesThree(x) ==
    LET y == IF (x \div 128) % 2 # 0 THEN Xor(x * 2, ReductionPoly) ELSE x * 2
    IN Xor(y, x) % 256

\* the first loop of init up to i = n: exp holds gfExp[0..Len(exp)-1], the
\* last of them being the x of the iteration before
RECURSIVE GenExp(_, _)
GenExp(exp, n) ==
    IF Len(exp) >= n THEN exp
    ELSE GenExp(Append(exp, uint8(TimesThree(exp[Len(exp)]))), n)

\* the second loop of init up to i = n: gfExp[i] = gfExp[i-255] for
\* i = Len(exp)
RECURSIVE ExtendExp(_, _)
ExtendExp(exp, n) ==
    IF Len(exp) >= n THEN exp
    ELSE ExtendExp(Append(exp, exp[Len(exp) + 1 - 255]), n)

\* gfExp as init leaves it, with the indices of the source (from 0); each
\* loop is run in four stretches
gfExp ==
    LET first == GenExp(GenExp(GenExp(GenExp(<<1>>, 64), 128), 192), 255)
        exp == ExtendExp(ExtendExp(ExtendExp(ExtendExp(first, 320), 384), 448), 512)
    IN [i \in 0..511 |-> exp[i + 1]]

\* gfLog as init leaves it: gfLog[x] = i for the last i < 255 with
\* gfExp[i] = x, and the zero it started with where nothing was written
gfLog ==
    [x \in 0..255 |->
        LET written == {i \in 0..254 : gfExp[i] = x}
        IN IF written = {} THEN 0
           ELSE uint8(CHOOSE i \in written : \A j \in written : j <= i)]

mul(a, b) ==
    IF a = 0 \/ b = 0 THEN 0
    ELSE gfExp[gfLog[a] + gfLog[b]]

\* div testing the divisor before the dividend
divDivisorFirst(a, b) ==
    IF b = 0 THEN [val |-> 0, err |-> Err("division by zero in GF(2^8)", -1, -1)]
    ELSE IF a = 0 THEN [val |-> 0, err |-> Nil]
    ELSE LET diff == gfLog[a] - gfLog[b]
         IN [val |-> gfExp[IF diff < 0 THEN diff + 255 ELSE diff], err |-> Nil]

div(a, b) ==
    IF a = 0 THEN [val |-> 0, err |-> Nil]
    ELSE IF b = 0
        THEN [val |-> 0, err |-> Err("division by zero in GF(2^8)", -1, -1)]
    ELSE LET diff == gfLog[a] - gfLog[b]
         IN [val |-> gfExp[IF diff < 0 THEN diff + 255 ELSE diff], err |-> Nil]

\* the elements of s in reverse order
Reverse(s) == [i \in 1..Len(s) |-> s[Len(s) + 1 - i]]

\* SharesAfterCombine with the used shares reordered in place
SharesAfterCombineReordered(sharesNil, shares, threshold) ==
    IF IsErr(validateCombineParams(sharesNil, shares, threshold)) THEN shares
    ELSE Reverse(SubSeq(shares, 1, threshold))
         \o SubSeq(shares, threshold + 1, Len(shares))

\* the caller's slice as Combine leaves it.  usedShares := shares[:threshold]
\* shares the caller's array, so what Combine and its callees do to
\* usedShares shows in the first threshold elements; they only read it.
SharesAfterCombine(sharesNil, shares, threshold) ==
    IF IsErr(validateCombineParams(sharesNil, shares, threshold)) THEN shares
    ELSE LET usedShares == SubSeq(shares, 1, threshold)
         IN usedShares \o SubSeq(shares, threshold + 1, Len(shares))

(***************************************************************************)
(* utils.go: the text form of a share, "<index>:<hex>".  A Go string is a  *)
(* sequence of one-character strings.                                      *)
(***************************************************************************)
ErrInvalidEncodedShare == Err("invalid encoded share format", -1, -1)
ErrNilShares == Err("shares cannot be nil", -1, -1)
ErrNilEncoded == Err("encoded data cannot be nil", -1, -1)

\* the zero value Share{}
ZeroShare == [Index |-> 0, Value |-> <<>>]

DecDigits == <<"0", "1", "2", "3", "4", "5", "6", "7", "8", "9">>
\* encoding/hex hextable
hextable == <<"0", "1", "2", "3", "4", "5", "6", "7", "8", "9",
              "a", "b", "c", "d", "e", "f">>
UpperHex == <<"A", "B", "C", "D", "E", "F">>

\* strconv.FormatUint(n, 10)
RECURSIVE FormatUint(_)
FormatUint(n) ==
    IF n < 10 THEN <<DecDigits[n + 1]>>
    ELSE FormatUint(n \div 10) \o <<DecDigits[(n % 10) + 1]>>

\* EncodeToString writing one digit for a byte below 16
RECURSIVE EncodeToStringNoPad(_)
EncodeToStringNoPad(src) ==
    IF Len(src) = 0 THEN <<>>
    ELSE (IF Head(src) < 16 THEN <<hextable[Head(src) + 1]>>
          ELSE <<hextable[(Head(src) \div 16) + 1], hextable[(Head(src) % 16) + 1]>>)
         \o EncodeToStringNoPad(Tail(src))

\* hex.EncodeToString: two lowercase digits a byte, high nibble first
RECURSIVE EncodeToString(_)
EncodeToString(src) ==
    IF Len(src) = 0 THEN <<>>
    ELSE <<hextable[(Head(src) \div 16) + 1], hextable[(Head(src) % 16) + 1]>>
         \o EncodeToString(Tail(src))

encodeShareToHex(s) ==
    FormatUint(s.Index) \o <<":">> \o EncodeToString(s.Value)

\* EncodeSharesToHex with one test for nil and for empty
EncodeSharesToHexEmptyIsError(sharesNil, shares) ==
    IF sharesNil \/ Len(shares) = 0 THEN [result |-> <<>>, err |-> ErrNilShares]
    ELSE [result |-> [i \in 1..Len(shares) |-> encodeShareToHex(shares[i])],
          err |-> Nil]

EncodeSharesToHex(sharesNil, shares) ==
    IF sharesNil THEN [result |-> <<>>, err |-> ErrNilShares]
    ELSE IF Len(shares) = 0 THEN [result |-> <<>>, err |-> Nil]
    ELSE [result |-> [i \in 1..Len(shares) |-> encodeShareToHex(shares[i])],
          err |-> Nil]

\* strings.SplitN(s, ":", 2): cut at the first colon, if there is one
SplitN2(s) ==
    LET colons == {i \in 1..Len(s) : s[i] = ":"}
    IN IF colons = {} THEN <<s>>
       ELSE LET c == CHOOSE i \in colons : \A j \in colons : i <= j
            IN <<SubSeq(s, 1, c - 1), SubSeq(s, c + 1, Len(s))>>

\* the value of a decimal digit, -1 for any other character
DigitVal(c) ==
    IF \E d \in 1..10 : DecDigits[d] = c
    THEN (CHOOSE d \in 1..10 : DecDigits[d] = c) - 1
    ELSE -1

\* the loop of strconv.ParseUint(s, 10, bitSize) from character i on
RECURSIVE ParseDigits(_, _, _, _)
ParseDigits(s, i, n, maxVal) ==
    IF i > Len(s) THEN [val |-> n, err |-> Nil]
    ELSE IF DigitVal(s[i]) < 0
        THEN [val |-> 0, err |-> Err("strconv.ParseUint: invalid syntax", -1, -1)]
    ELSE IF n * 10 + DigitVal(s[i]) > maxVal
        THEN [val |-> maxVal,
              err |-> Err("strconv.ParseUint: value out of range", -1, -1)]
    ELSE ParseDigits(s, i + 1, n * 10 + DigitVal(s[i]), maxVal)

\* strconv.ParseUint(s, 10, bitSize)
ParseUint(s, bitSize) ==
    IF Len(s) = 0
    THEN [val |-> 0, err |-> Err("strconv.ParseUint: invalid syntax", -1, -1)]
    ELSE ParseDigits(s, 1, 0, 2 ^ bitSize - 1)

\* encoding/hex fromHexChar: the value of a hex digit of either case, -1 for
\* any other character
fromHexChar(c) ==
    IF \E d \in 1..16 : hextable[d] = c
    THEN (CHOOSE d \in 1..16 : hextable[d] = c) - 1
    ELSE IF \E d \in 1..6 : UpperHex[d] = c
    THEN (CHOOSE d \in 1..6 : UpperHex[d] = c) + 9
    ELSE -1

\* the loop of hex.Decode over the character pairs, from character j on
RECURSIVE DecodePairs(_, _, _)
DecodePairs(src, j, out) ==
    IF j + 1 > Len(src)
    THEN IF Len(src) % 2 = 1
         THEN IF fromHexChar(src[Len(src)]) < 0
              THEN [val |-> out,
                    err |-> Err("encoding/hex: invalid byte: %#U", Len(src) - 1, -1)]
              ELSE [val |-> out,
                    err |-> Err("encoding/hex: odd length hex string", -1, -1)]
         ELSE [val |-> out, err |-> Nil]
    ELSE IF fromHexChar(src[j]) < 0
        THEN [val |-> out, err |-> Err("encoding/hex: invalid byte: %#U", j - 1, -1)]
    ELSE IF fromHexChar(src[j + 1]) < 0
        THEN [val |-> out, err |-> Err("encoding/hex: invalid byte: %#U", j, -1)]
    ELSE DecodePairs(src, j + 2,
                     Append(out, fromHexChar(src[j]) * 16 + fromHexChar(src[j + 1])))

\* hex.DecodeString
DecodeString(s) == DecodePairs(s, 1, <<>>)

\* decodeShareFromHex accepting the index 0
decodeShareFromHexZeroIndex(encoded) ==
    IF Len(encoded) = 0 THEN [share |-> ZeroShare, err |-> ErrInvalidEncodedShare]
    ELSE
        LET parts == SplitN2(encoded)
        IN IF Len(parts) # 2
           THEN [share |-> ZeroShare, err |-> ErrInvalidEncodedShare]
           ELSE IF Len(parts[1]) = 0 \/ Len(parts[2]) = 0
           THEN [share |-> ZeroShare, err |-> ErrInvalidEncodedShare]
           ELSE
            LET index == ParseUint(parts[1], 8)
                value == DecodeString(parts[2])
            IN IF IsErr(index.err)
               THEN [share |-> ZeroShare, err |-> ErrInvalidEncodedShare]
               ELSE IF IsErr(value.err)
               THEN [share |-> ZeroShare, err |-> ErrInvalidEncodedShare]
               ELSE IF Len(value.val) = 0
               THEN [share |-> ZeroShare, err |-> ErrInvalidEncodedShare]
               ELSE [share |-> [Index |-> uint8(index.val), Value |-> value.val],
                     err |-> Nil]

decodeShareFromHex(encoded) ==
    IF Len(encoded) = 0 THEN [share |-> ZeroShare, err |-> ErrInvalidEncodedShare]
    ELSE
        LET parts == SplitN2(encoded)
        IN IF Len(parts) # 2
           THEN [share |-> ZeroShare, err |-> ErrInvalidEncodedShare]
           ELSE IF Len(parts[1]) = 0 \/ Len(parts[2]) = 0
           THEN [share |-> ZeroShare, err |-> ErrInvalidEncodedShare]
           ELSE
            LET index == ParseUint(parts[1], 8)
                value == DecodeString(parts[2])
            IN IF IsErr(index.err)
               THEN [share |-> ZeroShare, err |-> ErrInvalidEncodedShare]
               ELSE IF index.val = 0
               THEN [share |-> ZeroShare, err |-> ErrInvalidEncodedShare]
               ELSE IF IsErr(value.err)
               THEN [share |-> ZeroShare, err |-> ErrInvalidEncodedShare]
               ELSE IF Len(value.val) = 0
               THEN [share |-> ZeroShare, err |-> ErrInvalidEncodedShare]
               ELSE [share |-> [Index |-> uint8(index.val), Value |-> value.val],
                     err |-> Nil]

\* DecodeEach leaving out the strings that fail to decode
RECURSIVE DecodeEachSkipBad(_, _, _)
DecodeEachSkipBad(encoded, i, shares) ==
    IF i > Len(encoded) THEN [shares |-> shares, err |-> Nil]
    ELSE LET d == decodeShareFromHex(encoded[i])
         IN IF IsErr(d.err)
            THEN DecodeEachSkipBad(encoded, i + 1, shares)
            ELSE DecodeEachSkipBad(encoded, i + 1, Append(shares, d.share))

\* the loop of DecodeSharesFromHex from string i on
RECURSIVE DecodeEach(_, _, _)
DecodeEach(encoded, i, shares) ==
    IF i > Len(encoded) THEN [shares |-> shares, err |-> Nil]
    ELSE LET d == decodeShareFromHex(encoded[i])
         IN IF IsErr(d.err)
            THEN [shares |-> <<>>,
                  err |-> Err("invalid share at index %d: %w", i - 1, -1)]
            ELSE DecodeEach(encoded, i + 1, Append(shares, d.share))

DecodeSharesFromHex(encodedNil, encoded) ==
    IF encodedNil THEN [shares |-> <<>>, err |-> ErrNilEncoded]
    ELSE IF Len(encoded) = 0 THEN [shares |-> <<>>, err |-> Nil]
    ELSE DecodeEach(encoded, 1, <<>>)

(***************************************************************************)
(* One run of a caller: Split, then Combine on shares built from the       *)
(* result.  Neither function keeps state between calls; the variables are  *)
(* the arguments and results of the two calls.                             *)
(***************************************************************************)
VARIABLES pc,
          splitSecretNil, splitSecret, splitTotal, splitThreshold,
          splitDrawn, splitShares, splitErr,
          combNil, combShares, combThreshold, combSecret, combErr,
          combSharesAfter,
          encNil, encShares, encResult, encErr,
          decNil, decEncoded, decShares, decErr,
          mathOp, mathArgs, mathVal, mathErr

splitVars == <<splitSecretNil, splitSecret, splitTotal, splitThreshold,
               splitDrawn, splitShares, splitErr>>
combVars == <<combNil, combShares, combThreshold, combSecret, combErr,
              combSharesAfter>>
\* arguments and results of EncodeSharesToHex and DecodeSharesFromHex
encVars == <<encNil, encShares, encResult, encErr>>
decVars == <<decNil, decEncoded, decShares, decErr>>
hexVars == <<encVars, decVars>>
\* the field routine called last, its arguments and its result
mathVars == <<mathOp, mathArgs, mathVal, mathErr>>
vars == <<pc, splitVars, combVars, hexVars, mathVars>>

Max(a, b) == IF a > b THEN a ELSE b

SeqsOver(S, lo, hi) == UNION {[1..m -> S] : m \in lo..hi}

\* the outcomes of len reads of the random source: all succeed, or one fails
TapesOver(vals, len) ==
    LET clean == [1..len -> vals]
    IN clean \cup {[t EXCEPT ![f] = RandFail] : t \in clean, f \in 1..len}

\* reads offered to a Split call; never fewer than the call can make
TapeLen(s, k) == Max(1, Len(s)) * Max(1, Min(k, MaxTotal) - 1)

Init ==
    /\ pc = "start"
    /\ splitSecretNil = FALSE
    /\ splitSecret = <<>>
    /\ splitTotal = 0
    /\ splitThreshold = 0
    /\ splitDrawn = <<>>
    /\ splitShares = <<>>
    /\ splitErr = Nil
    /\ combNil = FALSE
    /\ combShares = <<>>
    /\ combThreshold = 0
    /\ combSecret = <<>>
    /\ combErr = Nil
    /\ combSharesAfter = <<>>
    /\ encNil = FALSE
    /\ encShares = <<>>
    /\ encResult = <<>>
    /\ encErr = Nil
    /\ decNil = FALSE
    /\ decEncoded = <<>>
    /\ decShares = <<>>
    /\ decErr = Nil
    /\ mathOp = ""
    /\ mathArgs = <<>>
    /\ mathVal = 0
    /\ mathErr = Nil

CallSplit(sNil, s, n, k, tape) ==
    LET r == Split(sNil, s, n, k, tape)
    IN /\ pc = "start"
       /\ pc' = "split"
       /\ splitSecretNil' = sNil
       /\ splitSecret' = s
       /\ splitTotal' = n
       /\ splitThreshold' = k
       /\ splitDrawn' = SubSeq(tape, 1, r.used)
       /\ splitShares' = r.shares
       /\ splitErr' = r.err
       /\ UNCHANGED <<combVars, hexVars, mathVars>>

CallCombine(cNil, in, k) ==
    LET r == Combine(cNil, in, k)
    IN /\ pc = "split"
       /\ pc' = "combined"
       /\ combNil' = cNil
       /\ combShares' = in
       /\ combThreshold' = k
       /\ combSecret' = r.secret
       /\ combErr' = r.err
       /\ combSharesAfter' = SharesAfterCombine(cNil, in, k)
       /\ UNCHANGED <<splitVars, hexVars, mathVars>>

\* Split(secret, n, k) with n up to MaxTotal
SplitSmall ==
    /\ pc = "start"
    /\ \E s \in SeqsOver(SecretBytes, 0, MaxSecretLen), n \in 0..MaxTotal,
          k \in ThresholdVals :
        \E tape \in TapesOver(CoeffVals \cap randInt(FieldPrime), TapeLen(s, k)) :
            CallSplit(FALSE, s, n, k, tape)

\* Split at the limits of the share count, and with a nil secret
SplitBoundary ==
    /\ pc = "start"
    /\ \/ \E s \in SeqsOver(SecretBytes, 0, 1), n \in BoundaryTotals,
             k \in ThresholdVals :
            \E tape \in TapesOver(CoeffVals \cap randInt(FieldPrime), TapeLen(s, k)) :
                CallSplit(FALSE, s, n, k, tape)
       \/ \E n \in 0..MaxTotal, k \in ThresholdVals :
            CallSplit(TRUE, <<>>, n, k, <<RandFail>>)

\* positions of the Split result a caller picks shares from
Pool == (1..Min(Len(splitShares), MaxTotal)) \cup
        (IF Len(splitShares) > 0 THEN {Len(splitShares)} ELSE {})

Injective(f) == \A i, j \in DOMAIN f : i # j => f[i] # f[j]

Picks(lo, hi) == {p \in SeqsOver(Pool, lo, hi) : Injective(p)}

Pick(p) == [i \in 1..Len(p) |-> splitShares[p[i]]]

\* Combine on shares of the Split result, any selection in any order
CombineSplitShares ==
    /\ pc = "split"
    /\ \E p \in Picks(0, MaxPick), k \in CombineThresholds :
        CallCombine(FALSE, Pick(p), k)

\* Combine(nil, k)
CombineNil ==
    /\ pc = "split"
    /\ \E k \in CombineThresholds : CallCombine(TRUE, <<>>, k)

Next ==
    \/ SplitSmall
    \/ SplitBoundary
    \/ CombineSplitShares
    \/ CombineNil

Spec == Init /\ [][Next]_vars

(***************************************************************************)
(* Combine on shares that were damaged after Split: the first m shares of  *)
(* the result with one of them changed.                                    *)
(***************************************************************************)
CorruptThresholds == {2, 3}
\* element values written over a share element: the largest valid one, the
\* smallest invalid one and the largest two bytes can hold
CorruptElems == {256, 257, 65535}

Corruption(kind, a, b) == [kind |-> kind, a |-> a, b |-> b]

\* the ways share p of shs can be damaged
Corruptions(shs, p) ==
    {Corruption("zero_index", 0, 0)}
    \cup {Corruption("copy_index", j, 0) : j \in (1..Len(shs)) \ {p}}
    \cup {Corruption("truncate", d, 0) : d \in 1..Min(2, Len(shs[p].Value))}
    \cup {Corruption("element", q, e) :
            q \in 1..(Len(shs[p].Value) \div 2), e \in CorruptElems}

Corrupt(shs, p, c) ==
    [shs EXCEPT ![p] =
        CASE c.kind = "zero_index" -> [@ EXCEPT !.Index = 0]
          [] c.kind = "copy_index" -> [@ EXCEPT !.Index = shs[c.a].Index]
          [] c.kind = "truncate" ->
                [@ EXCEPT !.Value = SubSeq(@, 1, Len(@) - c.a)]
          [] c.kind = "element" ->
                [@ EXCEPT !.Value = [@ EXCEPT ![2 * c.a - 1] = c.b % 256,
                                              ![2 * c.a] = c.b \div 256]]]

CombineCorrupt ==
    /\ pc = "split"
    /\ \E k \in CorruptThresholds :
        \E m \in k..Min(MaxPick, Len(splitShares)) :
            \E p \in 1..m :
                \E c \in Corruptions(SubSeq(splitShares, 1, m), p) :
                    CallCombine(FALSE, Corrupt(SubSeq(splitShares, 1, m), p, c), k)

NextCorrupt ==
    \/ SplitSmall
    \/ CombineCorrupt

SpecCorrupt == Init /\ [][NextCorrupt]_vars

(***************************************************************************)
(* Every secret byte and every coefficient: Split of a one-byte secret     *)
(* with threshold 2, then Combine on two of the shares.                    *)
(***************************************************************************)
SplitAnyByte ==
    /\ pc = "start"
    /\ \E b \in Byte, c \in randInt(FieldPrime) :
        CallSplit(FALSE, <<b>>, MaxTotal, MinThreshold, <<c>>)

CombineThresholdShares ==
    /\ pc = "split"
    /\ \E p \in Picks(splitThreshold, splitThreshold) :
        p[1] < p[2] /\ CallCombine(FALSE, Pick(p), splitThreshold)

NextFull ==
    \/ SplitAnyByte
    \/ CombineThresholdShares

SpecFull == Init /\ [][NextFull]_vars

(***************************************************************************)
(* Every secret byte, for the view of fewer shares than the threshold.     *)
(***************************************************************************)
SplitOneByte ==
    /\ pc = "start"
    /\ \E b \in Byte, c \in CoeffVals \cap randInt(FieldPrime) :
        CallSplit(FALSE, <<b>>, MinThreshold, MinThreshold, <<c>>)

NextSecrecy == SplitOneByte

SpecSecrecy == Init /\ [][NextSecrecy]_vars

(***************************************************************************)
(* The text form: EncodeSharesToHex on shares, DecodeSharesFromHex on its  *)
(* result, and DecodeSharesFromHex on strings a caller supplies.           *)
(***************************************************************************)
\* value bytes of the shares encoded: one and two hex digits, both nibbles
ValueBytes == {0, 15, 16, 171, 255}
\* shares of the collections of more than one share
SampleShares ==
    {[Index |-> x, Value |-> v] : x \in {0, 1, 255}, v \in SeqsOver({0, 255}, 0, 1)}
\* characters of the strings decoded: decimal digits, the separator, hex
\* digits of both cases that are no decimal digits, and a letter that is no
\* hex digit
Chars == {"0", "3", ":", "a", "F", "g"}
\* strings of the collections of more than one string
SampleTexts == {<<"3", ":", "0", "0">>, <<"0", ":", "0", "0">>,
                <<"3", "0", ":", "a", "F">>, <<"3", ":", "g", "g">>}

CallEncode(sNil, shs) ==
    LET r == EncodeSharesToHex(sNil, shs)
    IN /\ pc' = "encoded"
       /\ encNil' = sNil
       /\ encShares' = shs
       /\ encResult' = r.result
       /\ encErr' = r.err
       /\ UNCHANGED <<splitVars, combVars, decVars, mathVars>>

CallDecode(eNil, encoded, to) ==
    LET r == DecodeSharesFromHex(eNil, encoded)
    IN /\ pc' = to
       /\ decNil' = eNil
       /\ decEncoded' = encoded
       /\ decShares' = r.shares
       /\ decErr' = r.err
       /\ UNCHANGED <<splitVars, combVars, encVars, mathVars>>

\* EncodeSharesToHex on one share of any index and value
EncodeOne ==
    /\ pc = "start"
    /\ \E x \in Byte, v \in SeqsOver(ValueBytes, 0, MaxValueLen) :
        CallEncode(FALSE, <<[Index |-> x, Value |-> v]>>)

\* EncodeSharesToHex on a collection of any size, and on nil
EncodeMany ==
    /\ pc = "start"
    /\ \/ \E shs \in SeqsOver(SampleShares, 0, MaxHexShares) :
            CallEncode(FALSE, shs)
       \/ CallEncode(TRUE, <<>>)

\* DecodeSharesFromHex on what EncodeSharesToHex returned
DecodeEncoded ==
    /\ pc = "encoded"
    /\ encErr = Nil
    /\ CallDecode(FALSE, encResult, "decoded")

\* DecodeSharesFromHex on one string of any content
DecodeText ==
    /\ pc = "start"
    /\ \E e \in SeqsOver(Chars, 0, MaxEncodedLen) :
        CallDecode(FALSE, <<e>>, "parsed")

\* DecodeSharesFromHex on a collection of any size, and on nil
DecodeTexts ==
    /\ pc = "start"
    /\ \/ \E es \in SeqsOver(SampleTexts, 0, MaxHexShares) :
            CallDecode(FALSE, es, "parsed")
       \/ CallDecode(TRUE, <<>>, "parsed")

NextHex ==
    \/ EncodeOne
    \/ EncodeMany
    \/ DecodeEncoded
    \/ DecodeText
    \/ DecodeTexts

SpecHex == Init /\ [][NextHex]_vars

(***************************************************************************)
(* The field routines on their own: each is called once on arguments of    *)
(* the caller's choice.                                                    *)
(***************************************************************************)
\* coefficients of the polynomials evaluated: both ends of the field, the
\* largest byte and values between
CoeffSamples == {0, 1, 128, 255, 256}

CallMath(op, args, r) ==
    /\ pc' = "computed"
    /\ mathOp' = op
    /\ mathArgs' = args
    /\ mathVal' = r.val
    /\ mathErr' = r.err
    /\ UNCHANGED <<splitVars, combVars, hexVars>>

\* evaluatePolynomial(coeffs, x, prime) at every share index x
EvaluatePolynomial ==
    /\ pc = "start"
    /\ \E c \in SeqsOver(CoeffSamples, 0, MaxCoeffs), x \in 1..MaxShares :
        CallMath("evaluatePolynomial", <<c, x>>,
                 [val |-> evaluatePolynomial(c, x, FieldPrime), err |-> Nil])

\* the inverse of a denominator, reduced or not
InvertDenominator ==
    /\ pc = "start"
    /\ \E a \in 0..(2 * FieldPrime) :
        CallMath("invertDenominator", <<a>>, invertDenominator(a, FieldPrime))

\* div(a, b) on every pair of bytes
DivideBytes ==
    /\ pc = "start"
    /\ \E a \in Byte, b \in Byte :
        CallMath("div", <<a, b>>, div(a, b))

NextField ==
    \/ EvaluatePolynomial
    \/ InvertDenominator
    \/ DivideBytes

SpecField == Init /\ [][NextField]_vars

(***************************************************************************)
(* Combine on shares a caller wrote by hand, whatever their source: any    *)
(* pair of indices, and sampled shares with elements on both sides of the  *)
(* field limit.                                                            *)
(***************************************************************************)
DirectIndices == {0, 1, 2, 255}
DirectElems == {0, 255, 256, 257}
DirectThresholds == {2, 3}

\* the two bytes of the element e, low byte first
TwoBytes(e) == <<e % 256, e \div 256>>

\* the share values of len elements over DirectElems
RECURSIVE DirectValues(_)
DirectValues(len) ==
    IF len = 0 THEN {<<>>}
    ELSE {v \o TwoBytes(e) : v \in DirectValues(len - 1), e \in DirectElems}

DirectShares(len) ==
    {[Index |-> x, Value |-> v] : x \in DirectIndices, v \in DirectValues(len)}

CallCombineDirect(in, k) ==
    LET r == Combine(FALSE, in, k)
    IN /\ pc' = "combined"
       /\ combNil' = FALSE
       /\ combShares' = in
       /\ combThreshold' = k
       /\ combSecret' = r.secret
       /\ combErr' = r.err
       /\ combSharesAfter' = SharesAfterCombine(FALSE, in, k)
       /\ UNCHANGED <<splitVars, hexVars, mathVars>>

\* Combine on two shares with any two indices a byte can hold
CombineIndexPairs ==
    /\ pc = "start"
    /\ \E x1 \in Byte, x2 \in Byte :
        CallCombineDirect(<<[Index |-> x1, Value |-> TwoBytes(1)],
                            [Index |-> x2, Value |-> TwoBytes(256)]>>,
                          MinThreshold)

\* Combine on k sampled shares: two shares of up to MaxSecretLen elements,
\* more shares of one element
CombineSampled ==
    /\ pc = "start"
    /\ \E k \in DirectThresholds :
        \E len \in 1..(IF k = MinThreshold THEN MaxSecretLen ELSE 1) :
            \E in \in [1..k -> DirectShares(len)] :
                CallCombineDirect(in, k)

NextDirect ==
    \/ CombineIndexPairs
    \/ CombineSampled

SpecDirect == Init /\ [][NextDirect]_vars

(***************************************************************************)
(* Properties.                                                             *)
(***************************************************************************)
Range(f) == {f[i] : i \in DOMAIN f}

SplitDone == pc \in {"split", "combined"}

\* the arguments of the Split call satisfy its documented preconditions
ValidSplitArgs ==
    /\ ~splitSecretNil
    /\ Len(splitSecret) >= 1
    /\ 2 <= splitThreshold
    /\ splitThreshold <= splitTotal
    /\ splitTotal <= 255

\* no read of the random source failed
RandomOk == \A i \in 1..Len(splitDrawn) : splitDrawn[i] # RandFail

DistinctIndices(shs) ==
    Cardinality({shs[i].Index : i \in 1..Len(shs)}) = Len(shs)

\* Combine was called on m distinct shares of the Split result
CombinedSplitShares(m) ==
    /\ pc = "combined"
    /\ ~combNil
    /\ Len(combShares) = m
    /\ \A i \in 1..m : combShares[i] \in Range(splitShares)
    /\ DistinctIndices(combShares)

\* C1: round trip. For a non-empty secret, valid (n,k) and any outcome of the
\* coefficient draws, Combine(T, k) on any k distinct shares T of
\* Split(S, n, k) returns S and no error.
RoundTrip ==
    (/\ SplitDone /\ ValidSplitArgs /\ RandomOk
     /\ CombinedSplitShares(splitThreshold)
     /\ combThreshold = splitThreshold)
    => (combErr = Nil /\ combSecret = splitSecret)

\* a round trip through shares that hold the element 256
RoundTripWitness ==
    /\ SplitDone /\ ValidSplitArgs /\ RandomOk
    /\ CombinedSplitShares(splitThreshold)
    /\ combThreshold = splitThreshold
    /\ Len(splitSecret) = 2
    /\ \E i \in 1..Len(combShares) : combShares[i].Value[2] = 1
    /\ combErr = Nil /\ combSecret = splitSecret

\* C3: a successful Split returns exactly n shares, the i-th with index i
\* (so indices are 1..n in order, distinct, never 0), each value of length
\* 2 x len(S).
SplitShape ==
    (SplitDone /\ splitErr = Nil)
    => /\ Len(splitShares) = splitTotal
       /\ \A i \in 1..Len(splitShares) :
            /\ splitShares[i].Index = i
            /\ splitShares[i].Index # 0
            /\ Len(splitShares[i].Value) = 2 * Len(splitSecret)
       /\ DistinctIndices(splitShares)

SplitShapeWitness ==
    /\ pc = "split" /\ splitErr = Nil
    /\ splitTotal = 3 /\ Len(splitShares) = 3
    /\ Len(splitSecret) = 2
    /\ Len(splitShares[3].Value) = 4

CombineValidation ==
    (/\ pc = "combined"
     /\ \/ Len(combShares) = 0
        \/ Len(combShares) < combThreshold
        \/ combThreshold < 2
        \/ combThreshold > 255)
    => (IsErr(combErr) /\ combSecret = <<>>)

\* the first two shares of a Split with threshold 3, combined with k = 3
CombineValidationWitness ==
    /\ pc = "combined"
    /\ splitErr = Nil /\ splitThreshold = 3 /\ Len(splitShares) >= 3
    /\ combShares = SubSeq(splitShares, 1, 2)
    /\ combThreshold = 3
    /\ combErr = Err("insufficient shares: need at least threshold shares", -1, -1)

\* C9: subset independence. Whatever k distinct shares of one Split result
\* Combine was given, Combine on every other selection of k of its shares
\* returns the same secret.
SubsetIndependence ==
    (/\ SplitDone /\ ValidSplitArgs /\ RandomOk
     /\ CombinedSplitShares(splitThreshold)
     /\ combThreshold = splitThreshold)
    => \A p \in Picks(splitThreshold, splitThreshold) :
        LET r == Combine(FALSE, Pick(p), splitThreshold)
        IN r.err = Nil /\ combErr = Nil /\ r.secret = combSecret

SubsetIndependenceWitness ==
    /\ SplitDone /\ ValidSplitArgs /\ RandomOk
    /\ splitTotal = 3 /\ splitThreshold = 2 /\ combThreshold = 2
    /\ CombinedSplitShares(2)
    /\ combShares[1].Index = 2 /\ combShares[2].Index = 3
    /\ Len(combSecret) = 2 /\ combErr = Nil
    /\ Cardinality(Picks(2, 2)) = 6

\* the shares Combine uses: the first combThreshold of those given
UsedShares == SubSeq(combShares, 1, combThreshold)

\* Combine was given at least k shares, with k within [2,255]
CombineArgsInRange ==
    /\ pc = "combined"
    /\ ~combNil
    /\ 2 <= combThreshold /\ combThreshold <= 255
    /\ combThreshold <= Len(combShares)

\* the element of a share value at (1-based) element position q
Decoded(value, q) == value[2 * q - 1] + 256 * value[2 * q]

\* C6: corruption detection. Combine returns an error and no secret when the
\* shares it uses contain a zero index, two equal indices, values of
\* differing length, or a value of odd length.
CorruptionDetected ==
    (/\ CombineArgsInRange
     /\ \/ \E i \in 1..combThreshold : UsedShares[i].Index = 0
        \/ ~DistinctIndices(UsedShares)
        \/ \E i, j \in 1..combThreshold :
                Len(UsedShares[i].Value) # Len(UsedShares[j].Value)
        \/ \E i \in 1..combThreshold : Len(UsedShares[i].Value) % 2 = 1)
    => (IsErr(combErr) /\ combSecret = <<>>)

\* a used share with index 0, everything else as Split produced it
CorruptionDetectedWitness ==
    /\ CombineArgsInRange
    /\ combThreshold = 3
    /\ UsedShares[2].Index = 0
    /\ \A i \in {1, 3} : UsedShares[i] = splitShares[i]
    /\ combErr = Err("share index must be non-zero", -1, -1)
    /\ combSecret = <<>>

\* the used shares pass every check but the one on the element range
WellFormedUsedShares ==
    /\ \A i \in 1..combThreshold : UsedShares[i].Index # 0
    /\ DistinctIndices(UsedShares)
    /\ Len(UsedShares[1].Value) > 0
    /\ Len(UsedShares[1].Value) % 2 = 0
    /\ \A i \in 1..combThreshold :
            Len(UsedShares[i].Value) = Len(UsedShares[1].Value)

\* C7: out-of-range elements. Combine returns an error when an element of a
\* used share decodes (lo + 256*hi) to 257 or more; an element that decodes
\* to exactly 256 is accepted.
ElementRange ==
    /\ (/\ CombineArgsInRange
        /\ \E i \in 1..combThreshold :
            \E q \in 1..(Len(UsedShares[i].Value) \div 2) :
                Decoded(UsedShares[i].Value, q) >= 257)
       => IsErr(combErr)
    /\ (/\ CombineArgsInRange
        /\ WellFormedUsedShares
        /\ \A i \in 1..combThreshold :
            \A q \in 1..(Len(UsedShares[i].Value) \div 2) :
                Decoded(UsedShares[i].Value, q) <= 256)
       => combErr = Nil

\* share 0 holds the element 256 and passes, share 1 holds 257 and is refused
ElementRangeWitness ==
    /\ CombineArgsInRange
    /\ WellFormedUsedShares
    /\ Decoded(UsedShares[1].Value, 1) = 256
    /\ Decoded(UsedShares[2].Value, 1) = 257
    /\ combErr = Err("share %d: decoded value %d out of field range [0, %d]", 1, 257)

View(shs, T) == [x \in T |-> shs[x].Value]

\* every outcome of the draws one Split(secret, n, k) call makes
DrawOutcomes(secret, k) == [1..(Len(secret) * (k - 1)) -> randInt(FieldPrime)]

\* for a set of <<argument, value>> pairs: the values, each with the number
\* of arguments that give it
BagOf(pairs) ==
    [v \in {p[2] : p \in pairs} |-> Cardinality({p \in pairs : p[2] = v})]

\* the views at T that Split(secret, n, k) can produce, each with the number
\* of draw outcomes that produce it
ViewBag(secret, n, k, T) ==
    BagOf({<<t, View(Split(FALSE, secret, n, k, t).shares, T)>> :
                t \in DrawOutcomes(secret, k)})

NextByte(secret) == [i \in DOMAIN secret |-> (secret[i] + 1) % 256]

SameViews(bag, other, seen) == bag = other /\ seen \in DOMAIN other

\* C2: secrecy below the threshold. For any set of at most k-1 share indices
\* the views Split can produce there, counted over all coefficient draws,
\* are the same for a secret byte and for the next one (mod 256), hence the
\* same for all 256 secret bytes; the view Split did produce is among them.
Secrecy ==
    (pc = "split" /\ ValidSplitArgs /\ RandomOk)
    => \A T \in SUBSET (1..splitTotal) :
        Cardinality(T) <= splitThreshold - 1
        => SameViews(ViewBag(splitSecret, splitTotal, splitThreshold, T),
                     ViewBag(NextByte(splitSecret), splitTotal, splitThreshold, T),
                     View(splitShares, T))

SecrecyWitness ==
    /\ pc = "split" /\ ValidSplitArgs /\ RandomOk
    /\ splitSecret = <<255>> /\ splitThreshold = 2
    /\ Decoded(splitShares[1].Value, 1) = 256
    /\ Cardinality(DOMAIN ViewBag(<<0>>, splitTotal, splitThreshold, {1})) = 257

(***************************************************************************)
(* The text form of shares.                                                *)
(***************************************************************************)
\* C11: for a non-empty collection of shares with indices in 1..255 and
\* non-empty values, DecodeSharesFromHex on the result of EncodeSharesToHex
\* succeeds and returns the same shares, in index, value and order.
HexRoundTrip ==
    (/\ pc = "decoded"
     /\ ~encNil
     /\ Len(encShares) > 0
     /\ \A i \in 1..Len(encShares) :
            encShares[i].Index \in 1..MaxShares /\ Len(encShares[i].Value) > 0)
    => /\ encErr = Nil
       /\ decErr = Nil
       /\ decShares = encShares

\* a share whose value needs a leading zero digit went through both ways
HexRoundTripWitness ==
    /\ pc = "decoded"
    /\ encShares = <<[Index |-> 10, Value |-> <<15, 171>>]>>
    /\ encResult = << <<"1", "0", ":", "0", "f", "a", "b">> >>
    /\ decErr = Nil
    /\ decShares = encShares

DecChars == {"0", "1", "2", "3", "4", "5", "6", "7", "8", "9"}
HexChars == DecChars \cup {"a", "b", "c", "d", "e", "f", "A", "B", "C", "D", "E", "F"}

\* the number a string of decimal digits denotes
RECURSIVE DecimalValue(_)
DecimalValue(s) ==
    IF Len(s) = 0 THEN 0
    ELSE DecimalValue(SubSeq(s, 1, Len(s) - 1)) * 10
         + (CHOOSE d \in 0..9 : DecDigits[d + 1] = s[Len(s)])

\* the segments of e before and after its first colon
IndexSegment(e) ==
    SubSeq(e, 1, (CHOOSE c \in 1..Len(e) :
                    e[c] = ":" /\ \A j \in 1..(c - 1) : e[j] # ":") - 1)
HexSegment(e) ==
    SubSeq(e, (CHOOSE c \in 1..Len(e) :
                    e[c] = ":" /\ \A j \in 1..(c - 1) : e[j] # ":") + 1, Len(e))

\* the share strings the text format excludes
Malformed(e) ==
    \/ ":" \notin Range(e)
    \/ /\ ":" \in Range(e)
       /\ \/ Len(IndexSegment(e)) = 0
          \/ ~(Range(IndexSegment(e)) \subseteq DecChars)
          \/ /\ Range(IndexSegment(e)) \subseteq DecChars
             /\ \/ DecimalValue(IndexSegment(e)) > MaxShares
                \/ DecimalValue(IndexSegment(e)) = 0
          \/ ~(Range(HexSegment(e)) \subseteq HexChars)
          \/ Len(HexSegment(e)) = 0

\* C12: decoding fails when a share string has no colon, when its index
\* segment (up to the first colon) is empty, non-numeric, greater than 255
\* or 0, or when its hex segment (after the first colon) is empty or holds
\* a non-hex character.
HexDecodeRejection ==
    (/\ pc = "parsed"
     /\ ~decNil
     /\ \E i \in 1..Len(decEncoded) : Malformed(decEncoded[i]))
    => IsErr(decErr) /\ decShares = <<>>

\* the index 0 with a well-formed hex segment was rejected
HexDecodeRejectionWitness ==
    /\ pc = "parsed"
    /\ decEncoded = << <<"0", "0", ":", "a", "F">> >>
    /\ decErr = Err("invalid share at index %d: %w", 0, -1)

\* C13 as stated: a collection with no elements, nil or not, encodes and
\* decodes to an empty collection without an error.
EmptyCollection ==
    /\ (pc = "encoded" /\ Len(encShares) = 0)
        => (encErr = Nil /\ encResult = <<>>)
    /\ (pc = "parsed" /\ Len(decEncoded) = 0)
        => (decErr = Nil /\ decShares = <<>>)

\* C13: an empty collection that is not nil encodes to an empty collection
\* and decodes to an empty collection, without an error.
EmptyNonNilCollection ==
    /\ (pc \in {"encoded", "decoded"} /\ ~encNil /\ Len(encShares) = 0)
        => (encErr = Nil /\ encResult = <<>>)
    /\ (pc \in {"parsed", "decoded"} /\ ~decNil /\ Len(decEncoded) = 0)
        => (decErr = Nil /\ decShares = <<>>)

\* an empty collection was encoded and the result decoded
EmptyNonNilCollectionWitness ==
    /\ pc = "decoded"
    /\ ~encNil
    /\ encShares = <<>>
    /\ encErr = Nil
    /\ ~decNil
    /\ decEncoded = <<>>
    /\ decErr = Nil
    /\ decShares = <<>>

(***************************************************************************)
(* Errors and the random source.                                           *)
(***************************************************************************)
\* C14: no partial result on error. Whenever Split returns an error it
\* returns no shares, and whenever Combine returns an error it returns no
\* secret, whatever the cause and the byte position it is found at.
NoPartialResult ==
    /\ (SplitDone /\ IsErr(splitErr)) => splitShares = <<>>
    /\ (pc = "combined" /\ IsErr(combErr)) => combSecret = <<>>

\* Combine failed at the second byte position, the first one being sound
NoPartialResultWitness ==
    /\ pc = "combined"
    /\ combErr.msg = "share %d: decoded value %d out of field range [0, %d]"
    /\ Len(combShares[1].Value) = 4
    /\ \A i \in 1..combThreshold : Decoded(combShares[i].Value, 1) < FieldPrime
    /\ \E i \in 1..combThreshold : Decoded(combShares[i].Value, 2) >= FieldPrime
    /\ combSecret = <<>>

\* C15: randomness failure propagates. When a read of the random source
\* fails during Split, at the first byte position or a later one, Split
\* stops at that read and returns the error and no shares.
RandomnessFailurePropagates ==
    (SplitDone /\ ~RandomOk)
    => /\ splitErr = Err("random coefficient generation failed: %w", -1, -1)
       /\ splitShares = <<>>
       /\ splitDrawn[Len(splitDrawn)] = RandFail
       /\ \A i \in 1..(Len(splitDrawn) - 1) : splitDrawn[i] # RandFail

\* the read for the second byte failed after the first byte was processed
RandomnessFailurePropagatesWitness ==
    /\ pc = "split"
    /\ Len(splitSecret) = 2
    /\ splitThreshold = 2
    /\ splitDrawn = <<256, RandFail>>
    /\ IsErr(splitErr)
    /\ splitShares = <<>>

\* C16: validation precedes randomness. A Split call whose arguments fail a
\* precondition (non-empty secret, 2 <= k <= 255, k <= n <= 255) returns
\* the error without a read of the random source.
ValidationPrecedesRandomness ==
    (SplitDone /\ ~ValidSplitArgs)
    => (IsErr(splitErr) /\ Len(splitDrawn) = 0)

\* a call with a sound secret and threshold and too many shares: the last
\* test of the validation failed and nothing was drawn
ValidationPrecedesRandomnessWitness ==
    /\ pc = "split"
    /\ Len(splitSecret) = 1
    /\ splitThreshold = MinThreshold
    /\ splitTotal = MaxShares + 1
    /\ splitErr = Err("totalShares must be <= %d", MaxShares, -1)
    /\ splitDrawn = <<>>

(***************************************************************************)
(* The polynomial of a byte position and the share elements.               *)
(***************************************************************************)
\* the coefficients Split used for byte position q: the secret byte and the
\* threshold - 1 reads made for that position
CoeffsAt(q) ==
    <<splitSecret[q]>>
    \o SubSeq(splitDrawn, (q - 1) * (splitThreshold - 1) + 1,
                          q * (splitThreshold - 1))

\* c[1] + c[2]*x + ... + c[m]*x^(m-1)
RECURSIVE PolySum(_, _)
PolySum(c, x) ==
    IF Len(c) = 0 THEN 0
    ELSE PolySum(SubSeq(c, 1, Len(c) - 1), x) + c[Len(c)] * x ^ (Len(c) - 1)

\* C19: lossless element encoding. Every evaluation v that Split writes
\* into a share lies in [0,256] and is stored as the two bytes
\* (v mod 256, v div 256), so that lo + 256*hi at that position is v.
LosslessElementEncoding ==
    (SplitDone /\ ~IsErr(splitErr))
    => \A i \in 1..Len(splitShares), q \in 1..Len(splitSecret) :
        LET v == evaluatePolynomial(CoeffsAt(q), splitShares[i].Index, FieldPrime)
        IN /\ v \in 0..(FieldPrime - 1)
           /\ splitShares[i].Value[2 * q - 1] = v % 256
           /\ splitShares[i].Value[2 * q] = v \div 256
           /\ Decoded(splitShares[i].Value, q) = v

\* the evaluation 256 was written as (0, 1)
LosslessElementEncodingWitness ==
    /\ pc = "split"
    /\ splitSecret = <<255>>
    /\ splitDrawn = <<1>>
    /\ splitShares[1].Value = <<0, 1>>

\* C20: coefficient construction. For each byte position Split builds one
\* polynomial whose constant term is the secret byte and whose k-1 other
\* coefficients each come from a read of their own, within 0..256 (any of
\* these values can come); no read serves two positions.
CoefficientConstruction ==
    /\ randInt(FieldPrime) = 0..(FieldPrime - 1)
    /\ (SplitDone /\ ~IsErr(splitErr))
        => /\ Len(splitDrawn) = Len(splitSecret) * (splitThreshold - 1)
           /\ Range(splitDrawn) \subseteq randInt(FieldPrime)
           /\ \A i \in 1..Len(splitShares), q \in 1..Len(splitSecret) :
                Decoded(splitShares[i].Value, q)
                    = PolySum(CoeffsAt(q), splitShares[i].Index) % FieldPrime

\* two byte positions with different coefficients, 256 among them
CoefficientConstructionWitness ==
    /\ pc = "split"
    /\ splitSecret = <<255, 0>>
    /\ splitThreshold = 3
    /\ splitDrawn = <<1, 256, 256, 1>>
    /\ ~IsErr(splitErr)
    /\ Len(splitShares) = 3

RECURSIVE PowMod(_, _, _)
PowMod(x, e, p) == IF e = 0 THEN 1 % p ELSE (x * PowMod(x, e - 1, p)) % p

\* c[1] + c[2]*x + ... + c[m]*x^(m-1), each power reduced mod p
RECURSIVE SumTerms(_, _, _)
SumTerms(c, x, p) ==
    IF Len(c) = 0 THEN 0
    ELSE SumTerms(SubSeq(c, 1, Len(c) - 1), x, p)
         + c[Len(c)] * PowMod(x, Len(c) - 1, p)

\* C21: polynomial evaluation. For coefficients c_0..c_{k-1} in [0,256] and
\* a point x in 1..255, evaluatePolynomial returns
\* (c_0 + c_1*x + ... + c_{k-1}*x^(k-1)) mod 257, a value in [0,256].
PolynomialEvaluation ==
    (pc = "computed" /\ mathOp = "evaluatePolynomial" /\ Len(mathArgs[1]) >= 1)
    => /\ mathVal = SumTerms(mathArgs[1], mathArgs[2], FieldPrime) % FieldPrime
       /\ mathVal \in 0..(FieldPrime - 1)

\* 255 + 256*255 + 1*255^2 = -2 + 2 + 4 (mod 257)
PolynomialEvaluationWitness ==
    /\ pc = "computed"
    /\ mathOp = "evaluatePolynomial"
    /\ mathArgs = << <<255, 256, 1>>, 255 >>
    /\ mathVal = 4

\* C24: modular inverse. For a not congruent to 0 mod 257 the inverse step
\* returns b in 1..256 with (a*b) mod 257 = 1 and no error; for a congruent
\* to 0 it returns the error, not a value.
ModularInverse ==
    (pc = "computed" /\ mathOp = "invertDenominator")
    => /\ mathArgs[1] % FieldPrime # 0
            => /\ mathErr = Nil
               /\ mathVal \in 1..(FieldPrime - 1)
               /\ (mathArgs[1] * mathVal) % FieldPrime = 1
       /\ mathArgs[1] % FieldPrime = 0 => IsErr(mathErr)

\* the denominator 0 was refused
ModularInverseWitness ==
    /\ pc = "computed"
    /\ mathOp = "invertDenominator"
    /\ mathArgs = <<0>>
    /\ mathErr = Err("modular inverse does not exist", -1, -1)

NoTruncation ==
    (/\ SplitDone /\ ValidSplitArgs /\ RandomOk
     /\ CombinedSplitShares(splitThreshold)
     /\ combThreshold = splitThreshold)
    => \A p \in 1..Len(splitSecret) :
        LET r == lagrangeInterpolate(UsedShares, p - 1, FieldPrime)
        IN /\ r.err = Nil
           /\ r.val = splitSecret[p]
           /\ r.val \in 0..255
           /\ byte(r.val % 256) = r.val
           /\ combSecret[p] = r.val

\* the largest byte reconstructed from a share that holds the element 256
NoTruncationWitness ==
    /\ pc = "combined"
    /\ splitSecret = <<255>>
    /\ splitDrawn = <<1>>
    /\ combShares[1].Index = 1
    /\ combShares[1].Value = <<0, 1>>
    /\ lagrangeInterpolate(UsedShares, 0, FieldPrime).val = 255
    /\ combSecret = <<255>>

\* the shares Combine uses passed all its checks on indices
IndicesValidated ==
    /\ CombineArgsInRange
    /\ \A i \in 1..combThreshold : UsedShares[i].Index \in 1..MaxShares
    /\ DistinctIndices(UsedShares)

\* C23: the inverse failure is unreachable after validation. Combine never
\* returns 'modular inverse does not exist', and when the used shares have
\* pairwise distinct non-zero indices every Lagrange denominator is
\* non-zero mod 257.
InverseFailureUnreachable ==
    pc = "combined"
    => /\ combErr.msg # "modular inverse does not exist"
       /\ IndicesValidated
            => \A i \in 1..combThreshold :
                NumDen(UsedShares, i, 1, FieldPrime, 1, 1).den # 0

\* the two indices furthest apart were combined
InverseFailureUnreachableWitness ==
    /\ pc = "combined"
    /\ combThreshold = 2
    /\ combShares[1].Index = 255
    /\ combShares[2].Index = 1
    /\ NumDen(UsedShares, 1, 1, FieldPrime, 1, 1).den = 254
    /\ combErr = Nil

\* the valid shares of C27: distinct non-zero indices, equal even-length
\* values, every element below 257
ValidShares ==
    /\ CombineArgsInRange
    /\ Len(combShares) = combThreshold
    /\ WellFormedUsedShares
    /\ \A i \in 1..combThreshold :
        \A q \in 1..(Len(combShares[i].Value) \div 2) :
            Decoded(combShares[i].Value, q) < FieldPrime

Orderings(k) == {f \in [1..k -> 1..k] : Injective(f)}

\* C27: order independence. For k valid shares Combine returns the same
\* secret, and no error, for every permutation of the shares.
OrderIndependence ==
    (pc = "combined" /\ ValidShares)
    => /\ combErr = Nil
       /\ \A f \in Orderings(combThreshold) :
            Combine(FALSE, [i \in 1..combThreshold |-> combShares[f[i]]],
                    combThreshold)
                = [secret |-> combSecret, err |-> Nil]

\* three shares with different elements, 256 among them, out of index order
OrderIndependenceWitness ==
    /\ pc = "combined"
    /\ ValidShares
    /\ combThreshold = 3
    /\ combShares = <<[Index |-> 255, Value |-> <<0, 1>>],
                      [Index |-> 1, Value |-> <<255, 0>>],
                      [Index |-> 2, Value |-> <<0, 0>>]>>
    /\ combErr = Nil

\* C28: over-threshold reconstruction. For shares of Split(S, n, k) and any
\* k' with k <= k' <= n, Combine on k' distinct shares with threshold k'
\* returns S.
OverThreshold ==
    (/\ SplitDone /\ ValidSplitArgs /\ RandomOk
     /\ splitThreshold <= combThreshold /\ combThreshold <= splitTotal
     /\ CombinedSplitShares(combThreshold))
    => (combErr = Nil /\ combSecret = splitSecret)

\* three shares of a threshold-2 Split combined with threshold 3
OverThresholdWitness ==
    /\ SplitDone /\ ValidSplitArgs /\ RandomOk
    /\ splitThreshold = 2
    /\ combThreshold = 3
    /\ CombinedSplitShares(3)
    /\ splitSecret = <<255, 0>>
    /\ combErr = Nil /\ combSecret = splitSecret

\* C29: DecodeSharesFromHex is all or nothing. If a string fails to decode
\* the call returns the error naming the position of the first such string
\* (wrapping ErrInvalidEncodedShare) and no shares; otherwise it returns one
\* share for each string, in order, with index in 1..255 and a non-empty value.
DecodeAllOrNothing ==
    (pc \in {"parsed", "decoded"} /\ ~decNil /\ Len(decEncoded) > 0)
    => LET bad == {i \in 1..Len(decEncoded) :
                        IsErr(decodeShareFromHex(decEncoded[i]).err)}
       IN /\ bad # {}
            => /\ decErr = Err("invalid share at index %d: %w",
                               (CHOOSE i \in bad : \A j \in bad : i <= j) - 1, -1)
               /\ \A i \in bad :
                    decodeShareFromHex(decEncoded[i]).err = ErrInvalidEncodedShare
               /\ decShares = <<>>
          /\ bad = {}
            => /\ decErr = Nil
               /\ Len(decShares) = Len(decEncoded)
               /\ \A i \in 1..Len(decEncoded) :
                    /\ decShares[i] = decodeShareFromHex(decEncoded[i]).share
                    /\ decShares[i].Index \in 1..MaxShares
                    /\ Len(decShares[i].Value) > 0

\* the second of two strings was bad: the first share was not returned
DecodeAllOrNothingWitness ==
    /\ pc = "parsed"
    /\ decEncoded = << <<"3", ":", "0", "0">>, <<"0", ":", "0", "0">> >>
    /\ decErr = Err("invalid share at index %d: %w", 1, -1)
    /\ decShares = <<>>

(***************************************************************************)
(* Byte positions.                                                         *)
(***************************************************************************)
\* the reads Split made for byte position q
DrawsAt(q) ==
    SubSeq(splitDrawn, (q - 1) * (splitThreshold - 1) + 1,
                       q * (splitThreshold - 1))

\* the two bytes of a share value at element position q
ElementAt(value, q) == SubSeq(value, 2 * q - 1, 2 * q)

\* the shares Combine was given, as Split had made them
SharesAsSplit == SubSeq(splitShares, 1, Len(combShares))

\* C25: byte positions never interact. The element Split writes at
\* position p of a share is the one it writes for the one-byte secret
\* S[p] with the coefficients drawn for p; and the byte Combine returns at
\* position p stays the same when bytes of the used shares at other
\* positions change and Combine still succeeds.
PositionsIndependent ==
    /\ (SplitDone /\ ~IsErr(splitErr))
        => \A p \in 1..Len(splitSecret) :
            LET one == Split(FALSE, <<splitSecret[p]>>, splitTotal,
                             splitThreshold, DrawsAt(p))
            IN /\ one.err = Nil
               /\ \A i \in 1..Len(splitShares) :
                    ElementAt(splitShares[i].Value, p) = one.shares[i].Value
    /\ (/\ pc = "combined" /\ combErr = Nil
        /\ Len(combShares) <= Len(splitShares)
        /\ Combine(FALSE, SharesAsSplit, combThreshold).err = Nil)
        => \A p \in 1..Len(combSecret) :
            (\A i \in 1..combThreshold :
                /\ combShares[i].Index = SharesAsSplit[i].Index
                /\ ElementAt(combShares[i].Value, p)
                        = ElementAt(SharesAsSplit[i].Value, p))
            => combSecret[p]
                    = Combine(FALSE, SharesAsSplit, combThreshold).secret[p]

\* an element of a used share changed at position 1: the first output byte
\* changed, the second did not
PositionsIndependentWitness ==
    /\ pc = "combined"
    /\ combErr = Nil
    /\ Len(splitSecret) = 2
    /\ \E i \in 1..combThreshold :
        /\ ElementAt(combShares[i].Value, 1) # ElementAt(splitShares[i].Value, 1)
        /\ ElementAt(combShares[i].Value, 2) = ElementAt(splitShares[i].Value, 2)
    /\ combSecret[1] # splitSecret[1]
    /\ combSecret[2] = splitSecret[2]

====
